---- MODULE Spec2Model ----
(***************************************************************************)
(* A model of cbz_tagging.py (the interactive tagger): the run of the      *)
(* script as a state machine, and its pure functions on bounded inputs;    *)
(* and of process_dir of manga_dir_tagging.py on bounded catalog entries.  *)
(*                                                                         *)
(* Strings are sequences of characters; a character is a one-element TLA+  *)
(* string, except the characters that have no plain spelling here:         *)
(*   "TAB" (U+0009), "NL" (U+000A), "RSQUO" (U+2019), "ELLIPSIS" (U+2026), *)
(*   "SUP2" (U+00B2, SUPERSCRIPT TWO).                                     *)
(***************************************************************************)
EXTENDS Integers, Sequences, FiniteSets, TLC

VARIABLES
    pc,                   \* where the run stands: the blocking call the program waits in
    args_directory,       \* parse_arguments: the value of -d/--directory, None when absent
    listing,              \* the file system: os.listdir of the directory at hand
    available_directories,\* __main__: dir_list of the working directory
    available_files,      \* __main__: file_list of the working directory (paths)
    choice,               \* choose_dir_or_file: what input() returned last
    selected_directory,   \* __main__: the first item choose_dir_or_file returned
    selected_file,        \* __main__: the second item choose_dir_or_file returned
    directory_to_process, \* process_cbz_files: its first argument
    specific_file,        \* process_cbz_files: its second argument, None when absent
    cbz_files_to_process, \* process_cbz_files: the sorted batch
    idx,                  \* process_cbz_files: enumerate index, 0-based as in the code
    metadata,             \* get_metadata_input: the ordered dict, a sequence of <<key, value>>
    answers,              \* get_metadata_input: what input() returned for each field of this file
    command,              \* the payload and path of the comictagger call in flight
    out,                  \* what the last step printed or logged
    offered,              \* history: the indices whose skip prompt was shown
    interrupted,          \* history: a KeyboardInterrupt was raised
    tool_exit,            \* history: how the last comictagger call ended, "none" before any
    failed,               \* history: the indices whose comictagger call exited non-zero
    exitStatus,           \* the process's exit status once pc = "exit"
    uncaught,             \* the exception that ended the process, "none" otherwise
    fn,                   \* PureSpec: the function under check
    arg,                  \* PureSpec: its input
    res                   \* PureSpec: its result

vars == <<pc, args_directory, listing, available_directories, available_files,
          choice, selected_directory, selected_file,
          directory_to_process, specific_file, cbz_files_to_process, idx,
          metadata, answers, command, out,
          offered, interrupted, tool_exit, failed, exitStatus, uncaught,
          fn, arg, res>>

---------------------------------------------------------------------------
(* Characters and the str methods the scripts use                          *)

None == <<"None">>

Range(s) == {s[i] : i \in 1..Len(s)}

\* The decimal digits: what \d matches and int() parses.
Digits == {"0", "1", "2", "3", "4", "5", "6", "7", "8", "9"}

DigitValue(c) ==
    CASE c = "0" -> 0 [] c = "1" -> 1 [] c = "2" -> 2 [] c = "3" -> 3
      [] c = "4" -> 4 [] c = "5" -> 5 [] c = "6" -> 6 [] c = "7" -> 7
      [] c = "8" -> 8 [] c = "9" -> 9

DigitChar(n) ==
    CASE n = 0 -> "0" [] n = 1 -> "1" [] n = 2 -> "2" [] n = 3 -> "3"
      [] n = 4 -> "4" [] n = 5 -> "5" [] n = 6 -> "6" [] n = 7 -> "7"
      [] n = 8 -> "8" [] n = 9 -> "9"

\* str.isdigit() and str.isnumeric() are true of the decimal digits and also of
\* characters int() refuses, such as SUPERSCRIPT TWO.
DigitLike == Digits \cup {"SUP2"}

\* What str.strip() removes and \s matches.
Whitespace == {" ", "TAB", "NL"}

\* str.lower(), and the case folding of re.IGNORECASE, on the letters in use.
Lower(c) ==
    CASE c = "V" -> "v" [] c = "O" -> "o" [] c = "L" -> "l" [] c = "U" -> "u"
      [] c = "M" -> "m" [] c = "E" -> "e" [] c = "X" -> "x" [] c = "I" -> "i"
      [] c = "T" -> "t" [] c = "Y" -> "y" [] c = "H" -> "h"
      [] OTHER -> c

LowerStr(s) == [i \in 1..Len(s) |-> Lower(s[i])]

\* str.isdigit(): non-empty and every character digit-like.
IsDigitStr(s) == Len(s) > 0 /\ \A i \in 1..Len(s) : s[i] \in DigitLike

\* str.isnumeric(): as isdigit on the characters in use.
IsNumericStr(s) == Len(s) > 0 /\ \A i \in 1..Len(s) : s[i] \in DigitLike

\* int(s) raises ValueError unless s is an optional sign and decimal digits
\* (surrounding whitespace allowed; none of the inputs in use has any).
IntParses(s) ==
    \/ Len(s) > 0 /\ \A i \in 1..Len(s) : s[i] \in Digits
    \/ Len(s) > 1 /\ s[1] \in {"+", "-"} /\ \A i \in 2..Len(s) : s[i] \in Digits

RECURSIVE DigitsValue(_)
DigitsValue(s) ==
    IF Len(s) = 0 THEN 0
    ELSE 10 * DigitsValue(SubSeq(s, 1, Len(s) - 1)) + DigitValue(s[Len(s)])

\* int(s) where IntParses(s).
ParseInt(s) ==
    IF s[1] = "-" THEN 0 - DigitsValue(Tail(s))
    ELSE IF s[1] = "+" THEN DigitsValue(Tail(s))
    ELSE DigitsValue(s)

RECURSIVE NatToStr(_)
NatToStr(n) ==
    IF n < 10 THEN <<DigitChar(n)>>
    ELSE Append(NatToStr(n \div 10), DigitChar(n % 10))

\* str(n)
IntToStr(n) == IF n < 0 THEN <<"-">> \o NatToStr(0 - n) ELSE NatToStr(n)

\* s.endswith(suffix)
EndsWith(s, suffix) ==
    /\ Len(s) >= Len(suffix)
    /\ SubSeq(s, Len(s) - Len(suffix) + 1, Len(s)) = suffix

\* os.path.join(directory, item)
PathJoin(directory, item) == directory \o <<"/">> \o item

---------------------------------------------------------------------------
(* clean_string                                                            *)

\* The dict CHAR_REPLACEMENT_MAPPING: character -> replacement string.
CHAR_REPLACEMENT_MAPPING ==
    [c \in {",", "NL", "=", "RSQUO"} |->
        CASE c = "," -> <<"^", ",">>
          [] c = "NL" -> <<" ">>
          [] c = "=" -> <<"^", "=">>
          [] c = "RSQUO" -> <<"'">>]

\* Mutant of ReplacedClass: the class without "=".
ReplacedClassNoEquals == {",", "NL"}

\* The character class of the first re.sub, [,\n=].
ReplacedClass == {",", "NL", "="}

\* re.sub(r"[,\n=]", lambda x: CHAR_REPLACEMENT_MAPPING[x.group()], s)
RECURSIVE SubMapped(_)
SubMapped(s) ==
    IF Len(s) = 0 THEN <<>>
    ELSE (IF Head(s) \in ReplacedClass THEN CHAR_REPLACEMENT_MAPPING[Head(s)]
          ELSE <<Head(s)>>) \o SubMapped(Tail(s))

\* str.strip()
RECURSIVE LStrip(_)
LStrip(s) ==
    IF Len(s) > 0 /\ Head(s) \in Whitespace THEN LStrip(Tail(s)) ELSE s

RECURSIVE RStrip(_)
RStrip(s) ==
    IF Len(s) > 0 /\ s[Len(s)] \in Whitespace
    THEN RStrip(SubSeq(s, 1, Len(s) - 1)) ELSE s

Strip(s) == RStrip(LStrip(s))

\* Mutant of CollapseWhitespace: s.replace("  ", " "), one pass over pairs
\* of spaces, as manga_tagging.py does.
RECURSIVE CollapsePairs(_)
CollapsePairs(s) ==
    IF Len(s) = 0 THEN <<>>
    ELSE IF Len(s) >= 2 /\ s[1] = " " /\ s[2] = " "
         THEN <<" ">> \o CollapsePairs(SubSeq(s, 3, Len(s)))
         ELSE <<Head(s)>> \o CollapsePairs(Tail(s))

\* re.sub(r"\s+", " ", s): every maximal run of whitespace becomes one space.
RECURSIVE CollapseWhitespace(_)
CollapseWhitespace(s) ==
    IF Len(s) = 0 THEN <<>>
    ELSE IF Head(s) \in Whitespace
         THEN <<" ">> \o CollapseWhitespace(LStrip(s))
         ELSE <<Head(s)>> \o CollapseWhitespace(Tail(s))

\* s.replace("...", "…"): left to right, non-overlapping.
RECURSIVE ReplaceEllipsis(_)
ReplaceEllipsis(s) ==
    IF Len(s) = 0 THEN <<>>
    ELSE IF Len(s) >= 3 /\ SubSeq(s, 1, 3) = <<".", ".", ".">>
         THEN <<"ELLIPSIS">> \o ReplaceEllipsis(SubSeq(s, 4, Len(s)))
         ELSE <<Head(s)>> \o ReplaceEllipsis(Tail(s))

clean_string(input_string) ==
    ReplaceEllipsis(CollapseWhitespace(Strip(SubMapped(input_string))))

---------------------------------------------------------------------------
(* extract_volume_number                                                   *)

\* \d+ at position i: the longest run of decimal digits starting there.
RECURSIVE DigitRun(_, _)
DigitRun(s, i) ==
    IF i <= Len(s) /\ s[i] \in Digits THEN <<s[i]>> \o DigitRun(s, i + 1)
    ELSE <<>>

\* Mutant of LitAt: the pattern compiled without re.IGNORECASE.
LitAtExact(s, i, lit) ==
    /\ i + Len(lit) - 1 <= Len(s)
    /\ SubSeq(s, i, i + Len(lit) - 1) = lit

\* A (lower-case) literal of the pattern matched at position i; the pattern
\* is compiled with re.IGNORECASE.
LitAt(s, i, lit) ==
    /\ i + Len(lit) - 1 <= Len(s)
    /\ LowerStr(SubSeq(s, i, i + Len(lit) - 1)) = lit

\* match.groups() of a match attempted at position i: the four capture groups
\* of v(\d+)|volume (\d+)|vol\.? (\d+)|#(\d+), <<>> for a group that took no
\* part. The alternatives are tried in order and the first that matches wins.
MatchGroups(s, i) ==
    LET g1 == IF LitAt(s, i, <<"v">>) THEN DigitRun(s, i + 1) ELSE <<>>
        g2 == IF LitAt(s, i, <<"v", "o", "l", "u", "m", "e", " ">>)
              THEN DigitRun(s, i + 7) ELSE <<>>
        g3 == IF LitAt(s, i, <<"v", "o", "l", ".", " ">>) THEN DigitRun(s, i + 5)
              ELSE IF LitAt(s, i, <<"v", "o", "l", " ">>) THEN DigitRun(s, i + 4)
              ELSE <<>>
        g4 == IF LitAt(s, i, <<"#">>) THEN DigitRun(s, i + 1) ELSE <<>>
    IN  IF g1 # <<>> THEN <<g1, <<>>, <<>>, <<>>>>
        ELSE IF g2 # <<>> THEN <<<<>>, g2, <<>>, <<>>>>
        ELSE IF g3 # <<>> THEN <<<<>>, <<>>, g3, <<>>>>
        ELSE <<<<>>, <<>>, <<>>, g4>>

Matches(s, i) == \E k \in 1..4 : MatchGroups(s, i)[k] # <<>>

\* re.search: the leftmost position with a match, 0 when there is none.
SearchPos(s) ==
    IF \E i \in 1..Len(s) : Matches(s, i)
    THEN CHOOSE i \in 1..Len(s) :
            Matches(s, i) /\ \A j \in 1..(i - 1) : ~Matches(s, j)
    ELSE 0

\* next(filter(None, groups), "")
FirstTruthy(groups) ==
    IF \E k \in 1..Len(groups) : groups[k] # <<>>
    THEN groups[CHOOSE k \in 1..Len(groups) :
                    groups[k] # <<>> /\ \A j \in 1..(k - 1) : groups[j] = <<>>]
    ELSE <<>>

extract_volume_number(title) ==
    IF SearchPos(title) # 0 THEN FirstTruthy(MatchGroups(title, SearchPos(title)))
    ELSE <<>>

---------------------------------------------------------------------------
(* get_comictagger_command                                                 *)

\* f"{key}={value}"
KeyValue(pair) == pair[1] \o <<"=">> \o pair[2]

\* ",".join(f"{key}={value}" for key, value in metadata.items())
RECURSIVE JoinPairs(_)
JoinPairs(md) ==
    IF Len(md) = 0 THEN <<>>
    ELSE IF Len(md) = 1 THEN KeyValue(md[1])
    ELSE KeyValue(md[1]) \o <<",">> \o JoinPairs(Tail(md))

get_comictagger_command(md, file_path) ==
    [tool |-> "comictagger",
     flags |-> <<"-s", "-t", "cr", "--overwrite", "-m">>,
     payload |-> JoinPairs(md),
     file |-> file_path]

\* metadata[key] = value on the ordered dict: a new key goes last, an
\* existing key keeps its place.
DictSet(md, key, value) ==
    IF \E i \in 1..Len(md) : md[i][1] = key
    THEN [i \in 1..Len(md) |-> IF md[i][1] = key THEN <<key, value>> ELSE md[i]]
    ELSE Append(md, <<key, value>>)

DictKeys(md) == [i \in 1..Len(md) |-> md[i][1]]

---------------------------------------------------------------------------
(* The batch order of process_cbz_files                                    *)

\* Mutant of SortKey: 0 instead of float("inf") for a name with no volume.
SortKeyZero(x) ==
    IF extract_volume_number(x) # <<>>
    THEN [inf |-> FALSE, n |-> DigitsValue(extract_volume_number(x))]
    ELSE [inf |-> FALSE, n |-> 0]

\* The sort key: int() of the volume number, float("inf") for a name that
\* has none.
SortKey(x) ==
    IF extract_volume_number(x) # <<>>
    THEN [inf |-> FALSE, n |-> DigitsValue(extract_volume_number(x))]
    ELSE [inf |-> TRUE, n |-> 0]

\* a < b on the keys
KeyLess(a, b) ==
    \/ ~a.inf /\ b.inf
    \/ ~a.inf /\ ~b.inf /\ a.n < b.n

\* list.sort(key=...) is stable: each element goes after the elements whose
\* key is not greater.
RECURSIVE InsertStable(_, _)
InsertStable(sorted, x) ==
    IF Len(sorted) = 0 THEN <<x>>
    ELSE IF KeyLess(SortKey(x), SortKey(Head(sorted))) THEN <<x>> \o sorted
    ELSE <<Head(sorted)>> \o InsertStable(Tail(sorted), x)

RECURSIVE SortByVolume(_)
SortByVolume(files) ==
    IF Len(files) = 0 THEN <<>>
    ELSE InsertStable(SortByVolume(SubSeq(files, 1, Len(files) - 1)),
                      files[Len(files)])

\* [file for file in os.listdir(d) if file.endswith(".cbz")]
RECURSIVE CbzNames(_)
CbzNames(entries) ==
    IF Len(entries) = 0 THEN <<>>
    ELSE (IF EndsWith(Head(entries).name, <<".", "c", "b", "z">>)
          THEN <<Head(entries).name>> ELSE <<>>) \o CbzNames(Tail(entries))

\* [item for item in os.listdir(d) if os.path.isdir(os.path.join(d, item))]
RECURSIVE DirNames(_)
DirNames(entries) ==
    IF Len(entries) = 0 THEN <<>>
    ELSE (IF Head(entries).isdir THEN <<Head(entries).name>> ELSE <<>>)
         \o DirNames(Tail(entries))

---------------------------------------------------------------------------
(* Bounds and the inputs drawn within them                                 *)

\* The most entries a directory listing holds.
MaxEntries == 2

\* The names in use.
V1Cbz == <<"v", "1", ".", "c", "b", "z">>
V02Cbz == <<"v", "0", "2", ".", "c", "b", "z">>
V2Cbz == <<"V", "2", ".", "c", "b", "z">>
V3Cbz == <<"v", "3", ".", "c", "b", "z">>
XCbz == <<"x", ".", "c", "b", "z">>
YCbz == <<"y", ".", "c", "b", "z">>
NTxt == <<"n", ".", "t", "x", "t">>
D1 == <<"d", "1">>
D2 == <<"d", "2">>
Cwd == <<"/", "w">>

Entry(n, d) == [name |-> n, isdir |-> d]

EntryPool ==
    {Entry(V1Cbz, FALSE), Entry(V02Cbz, FALSE), Entry(XCbz, FALSE),
     Entry(NTxt, FALSE), Entry(D1, TRUE), Entry(D2, TRUE)}

\* The sequences of at most n distinct members of S.
DistinctSeqs(S, n) ==
    UNION {{s \in [1..k -> S] : \A i, j \in 1..k : i # j => s[i] # s[j]} :
           k \in 0..n}

\* What os.listdir can return: any order, no name twice.
Listings == DistinctSeqs(EntryPool, MaxEntries)

ExitWord == <<"e", "x", "i", "t">>

\* Answers at the chooser: the numbers around the menu's range, a number with
\* a leading zero, the sentinel in three letter cases, a word, the empty
\* line and a digit int() refuses.
ChoiceInputs ==
    {IntToStr(k) : k \in 0..(MaxEntries + 1)}
    \cup {<<"0", "1">>, ExitWord, <<"E", "X", "I", "T">>, <<"E", "x", "i", "t">>,
          <<"x">>, <<>>, <<"SUP2">>}

SkipInputs == {<<"y">>, <<"Y">>, <<"n">>, <<>>}

DateInputs(field) ==
    CASE field = "year" ->
            {<<>>, <<"2", "0", "2", "1">>, <<"1", "9", "0", "0">>,
             <<"1", "8", "9", "9">>, <<"2", "1", "0", "1">>, <<"x">>}
      [] field = "month" ->
            {<<>>, <<"1", "2">>, <<"0">>, <<"1", "3">>, <<"SUP2">>}
      [] field = "day" ->
            {<<>>, <<"0", "1">>, <<"0">>, <<"3", "2">>, <<"-", "1">>}
      [] OTHER -> {}

HeroTitle ==
    <<"H", "e", "r", "o", ",", " ", "V", "o", "l", ".", " ", "5">>

TitleInputs ==
    {<<>>, HeroTitle, <<"v", "0", "9">>, <<"a", "=", "b">>, <<" ">>}

CommentsInputs == {<<>>, <<"x", ",", " ", " ", "y">>}

ToolOutcomes == {"ok", "nonzero", "notfound"}

---------------------------------------------------------------------------
(* The state machine of cbz_tagging.py                                     *)

NoAnswers ==
    [year |-> <<>>, month |-> <<>>, day |-> <<>>, title |-> <<>>,
     comments |-> <<>>]

NoCommand == [tool |-> "", flags |-> <<>>, payload |-> <<>>, file |-> <<>>]

Msg(k, t, f) == [kind |-> k, text |-> t, file |-> f]

\* validation_ranges
ValidationLow(field) ==
    CASE field = "year" -> 1900 [] field = "month" -> 1 [] field = "day" -> 1

ValidationHigh(field) ==
    CASE field = "year" -> 2100 [] field = "month" -> 12 [] field = "day" -> 31

FieldKey(field) ==
    CASE field = "year" -> <<"y", "e", "a", "r">>
      [] field = "month" -> <<"m", "o", "n", "t", "h">>
      [] field = "day" -> <<"d", "a", "y">>
      [] field = "title" -> <<"t", "i", "t", "l", "e">>
      [] field = "volume" -> <<"v", "o", "l", "u", "m", "e">>
      [] field = "comments" -> <<"c", "o", "m", "m", "e", "n", "t", "s">>

\* The prompt that follows a date field.
NextField(field) ==
    CASE field = "year" -> "month" [] field = "month" -> "day"
      [] field = "day" -> "title"

Prompts == {"chooser", "skip", "year", "month", "day", "title", "comments"}

PureIdle == fn = "" /\ arg = <<>> /\ res = <<>>

Init ==
    /\ pc = "main"
    /\ listing \in Listings
    /\ args_directory \in {None, D1, <<"n", "o">>}
    /\ available_directories = <<>>
    /\ available_files = <<>>
    /\ choice = <<>>
    /\ selected_directory = None
    /\ selected_file = None
    /\ directory_to_process = <<>>
    /\ specific_file = None
    /\ cbz_files_to_process = <<>>
    /\ idx = 0
    /\ metadata = <<>>
    /\ answers = NoAnswers
    /\ command = NoCommand
    /\ out = <<>>
    /\ offered = {}
    /\ interrupted = FALSE
    /\ tool_exit = "none"
    /\ failed = {}
    /\ exitStatus = 0
    /\ uncaught = "none"
    /\ PureIdle

\* The process ends: status 0 on a normal return or sys.exit(0), 1 on an
\* uncaught exception (the traceback names it), 2 on parser.error.
Exit(status, exception, printed) ==
    /\ pc' = "exit"
    /\ exitStatus' = status
    /\ uncaught' = exception
    /\ out' = printed

\* list_dirs_and_files(): the directory names, and the paths of the entries
\* whose name ends in .cbz.
ListedFiles(entries) ==
    [i \in 1..Len(CbzNames(entries)) |-> PathJoin(Cwd, CbzNames(entries)[i])]

\* What choose_dir_or_file prints before it waits for input: the directories,
\* then the files (numbered on from the directories), then the prompt.
Menu(directories, files) ==
    <<Msg("print", "Directories:", <<>>)>>
    \o [i \in 1..Len(directories) |-> Msg("print", "item", directories[i])]
    \o <<Msg("print", "Files:", <<>>)>>
    \o [i \in 1..Len(files) |-> Msg("print", "item", files[i])]
    \o <<Msg("prompt", "chooser", <<>>)>>

\* __main__ up to its first blocking call: parse_arguments, then the -d branch
\* or the listing of the working directory and the chooser's first menu.
Start ==
    /\ pc = "main"
    /\ IF args_directory # None
       THEN /\ IF ~\E i \in 1..Len(listing) : listing[i].name = args_directory
               THEN Exit(2, "none",
                         <<Msg("error", "The specified directory does not exist.",
                               args_directory)>>)
               ELSE \* args.directory_path: argparse defined no such attribute
                    Exit(1, "AttributeError", <<>>)
            /\ UNCHANGED <<available_directories, available_files>>
       ELSE /\ available_directories' = DirNames(listing)
            /\ available_files' = ListedFiles(listing)
            /\ IF Len(DirNames(listing)) = 0 /\ Len(ListedFiles(listing)) = 0
               THEN Exit(0, "none",
                         <<Msg("print", "No directories or .cbz files found", <<>>)>>)
               ELSE /\ pc' = "chooser"
                    /\ out' = Menu(DirNames(listing), ListedFiles(listing))
                    /\ UNCHANGED <<exitStatus, uncaught>>
    /\ UNCHANGED <<args_directory, listing, choice, selected_directory,
                   selected_file, directory_to_process, specific_file,
                   cbz_files_to_process, idx, metadata, answers, command,
                   offered, interrupted, tool_exit, failed, fn, arg, res>>

\* choose_dir_or_file returns (d, f) to __main__, which calls
\* process_cbz_files(dir_arg, file_arg).
Selected(c, d, f, dir_arg, file_arg) ==
    /\ pc' = "process"
    /\ choice' = c
    /\ selected_directory' = d
    /\ selected_file' = f
    /\ directory_to_process' = dir_arg
    /\ specific_file' = file_arg
    /\ out' = <<>>
    /\ UNCHANGED <<exitStatus, uncaught>>

\* One pass of the while loop of choose_dir_or_file: input() returns c.
\* readable: os.access(abs_path, os.R_OK) in get_directory_path.
Choose(c, readable) ==
    /\ pc = "chooser"
    /\ LET n == Len(available_directories)
           m == Len(available_files)
       IN  IF LowerStr(c) = ExitWord
           THEN \* return None, None; __main__ prints and calls sys.exit(0)
                /\ Exit(0, "none", <<Msg("print", "Exiting.", <<>>)>>)
                /\ choice' = c
                /\ UNCHANGED <<selected_directory, selected_file,
                               directory_to_process, specific_file>>
           ELSE IF IsDigitStr(c)
           THEN IF ~IntParses(c)
                THEN \* int(choice) raises ValueError, which nothing catches
                     /\ Exit(1, "ValueError", <<>>)
                     /\ choice' = c
                     /\ UNCHANGED <<selected_directory, selected_file,
                                    directory_to_process, specific_file>>
                ELSE IF 1 <= ParseInt(c) /\ ParseInt(c) <= n + m
                THEN IF ParseInt(c) <= n
                     THEN IF readable
                          THEN Selected(c, available_directories[ParseInt(c)], None,
                                        PathJoin(Cwd, available_directories[ParseInt(c)]),
                                        None)
                          ELSE \* get_directory_path raises PermissionError
                               /\ Exit(1, "PermissionError", <<>>)
                               /\ choice' = c
                               /\ selected_directory' =
                                      available_directories[ParseInt(c)]
                               /\ UNCHANGED <<selected_file, directory_to_process,
                                              specific_file>>
                     ELSE Selected(c, None, available_files[ParseInt(c) - n],
                                   <<".">>, available_files[ParseInt(c) - n])
                ELSE /\ out' = <<Msg("print", "Invalid choice. Please enter a valid number.", <<>>)>>
                               \o Menu(available_directories, available_files)
                     /\ choice' = c
                     /\ UNCHANGED <<pc, exitStatus, uncaught, selected_directory,
                                    selected_file, directory_to_process,
                                    specific_file>>
           ELSE /\ out' = <<Msg("print", "Invalid input. Please enter a valid number.", <<>>)>>
                          \o Menu(available_directories, available_files)
                /\ choice' = c
                /\ UNCHANGED <<pc, exitStatus, uncaught, selected_directory,
                               selected_file, directory_to_process, specific_file>>
    /\ UNCHANGED <<args_directory, listing, available_directories, available_files,
                   cbz_files_to_process, idx, metadata, answers, command,
                   offered, interrupted, tool_exit, failed, fn, arg, res>>

---------------------------------------------------------------------------
(* process_cbz_files                                                       *)

\* The indices from i on that the for loop does not pass over (line 257).
Eligible(files, i) ==
    {j \in i..(Len(files) - 1) : specific_file = None \/ files[j + 1] = specific_file}

\* The for loop over files goes on from index i, having printed `printed` in
\* this step: it stops at the skip prompt of the next file it does not pass
\* over, or runs out, prints "Job completed." and returns to __main__, which
\* ends.
NextFile(files, i, printed) ==
    IF Eligible(files, i) # {}
    THEN LET j == CHOOSE k \in Eligible(files, i) : \A l \in Eligible(files, i) : k <= l
             file_to_process == files[j + 1]
         IN  /\ pc' = "skip"
             /\ idx' = j
             /\ offered' = offered \cup {j}
             /\ out' = printed \o <<Msg("print", "Working on file", file_to_process),
                                    Msg("prompt", "skip", file_to_process)>>
             /\ UNCHANGED <<exitStatus, uncaught>>
    ELSE /\ Exit(0, "none", printed \o <<Msg("print", "Job completed.", <<>>)>>)
         /\ UNCHANGED <<idx, offered>>

\* process_cbz_files from its call to its first blocking call. entries is
\* what os.listdir(directory_to_process) returns: the listing of the working
\* directory for ".", any listing for a directory picked at the chooser.
\* Nothing reads the file system, the chooser's lists or its input after
\* this call, and the model forgets them.
ProcessStart(entries) ==
    /\ pc = "process"
    /\ directory_to_process = <<".">> => entries = listing
    /\ listing' = <<>>
    /\ available_directories' = <<>>
    /\ available_files' = <<>>
    /\ choice' = <<>>
    /\ IF Len(CbzNames(entries)) = 0
       THEN /\ Exit(0, "none",
                    <<Msg("print", "No CBZ files found in directory", directory_to_process)>>)
            /\ UNCHANGED <<cbz_files_to_process, idx, offered>>
       ELSE /\ cbz_files_to_process' = SortByVolume(CbzNames(entries))
            /\ NextFile(SortByVolume(CbzNames(entries)), 0, <<>>)
    /\ UNCHANGED <<args_directory, selected_directory, selected_file,
                   directory_to_process, specific_file, metadata, answers,
                   command, interrupted, tool_exit, failed, fn, arg, res>>

\* The skip prompt returns c: "y" in either case goes on to the next file,
\* anything else enters get_metadata_input, which prompts for the year.
AnswerSkip(c) ==
    /\ pc = "skip"
    /\ IF LowerStr(c) = <<"y">>
       THEN NextFile(cbz_files_to_process, idx + 1, <<>>)
       ELSE /\ pc' = "year"
            /\ out' = <<Msg("prompt", "year", <<>>)>>
            /\ UNCHANGED <<idx, offered, exitStatus, uncaught>>
    /\ metadata' = <<>>
    /\ answers' = NoAnswers
    /\ UNCHANGED <<args_directory, listing, available_directories, available_files,
                   choice, selected_directory, selected_file, directory_to_process,
                   specific_file, cbz_files_to_process, command, interrupted,
                   tool_exit, failed, fn, arg, res>>

\* The test of lines 196-201: int() raises ValueError, or the value is not
\* numeric or lies outside the field's range.
DateRejected(field, v) ==
    \/ ~IntParses(v)
    \/ ~IsNumericStr(v)
    \/ ~(ValidationLow(field) <= ParseInt(v) /\ ParseInt(v) <= ValidationHigh(field))

\* A date prompt of get_metadata_input returns v. A rejected value raises
\* ValueError, re-raised by the except clause of get_metadata_input; neither
\* process_cbz_files nor __main__ catches it.
EnterDate(v) ==
    /\ pc \in {"year", "month", "day"}
    /\ answers' = [answers EXCEPT ![pc] = v]
    /\ IF v # <<>> /\ DateRejected(pc, v)
       THEN /\ Exit(1, "ValueError", <<>>)
            /\ UNCHANGED metadata
       ELSE /\ metadata' = IF v = <<>> THEN metadata
                           ELSE DictSet(metadata, FieldKey(pc), IntToStr(ParseInt(v)))
            /\ pc' = NextField(pc)
            /\ out' = <<Msg("prompt", NextField(pc), <<>>)>>
            /\ UNCHANGED <<exitStatus, uncaught>>
    /\ UNCHANGED <<args_directory, listing, available_directories, available_files,
                   choice, selected_directory, selected_file, directory_to_process,
                   specific_file, cbz_files_to_process, idx, command, offered,
                   interrupted, tool_exit, failed, fn, arg, res>>

\* Mutant of WithTitle: the volume stored before the title.
WithTitleVolumeFirst(md, title_input) ==
    IF title_input = <<>> THEN md
    ELSE LET volumed == IF extract_volume_number(title_input) # <<>>
                        THEN DictSet(md, FieldKey("volume"),
                                     extract_volume_number(title_input))
                        ELSE md
         IN  DictSet(volumed, FieldKey("title"), clean_string(title_input))

\* The title and, when the raw title yields one, the volume (lines 207-210).
WithTitle(md, title_input) ==
    IF title_input = <<>> THEN md
    ELSE LET titled == DictSet(md, FieldKey("title"), clean_string(title_input))
         IN  IF extract_volume_number(title_input) # <<>>
             THEN DictSet(titled, FieldKey("volume"),
                          extract_volume_number(title_input))
             ELSE titled

EnterTitle(v) ==
    /\ pc = "title"
    /\ answers' = [answers EXCEPT !.title = v]
    /\ metadata' = WithTitle(metadata, v)
    /\ pc' = "comments"
    /\ out' = <<Msg("prompt", "comments", <<>>)>>
    /\ UNCHANGED <<args_directory, listing, available_directories, available_files,
                   choice, selected_directory, selected_file, directory_to_process,
                   specific_file, cbz_files_to_process, idx, command, offered,
                   interrupted, tool_exit, failed, exitStatus, uncaught,
                   fn, arg, res>>

WithComments(md, comments_input) ==
    IF comments_input = <<>> THEN md
    ELSE DictSet(md, FieldKey("comments"), clean_string(comments_input))

\* Mutant of Truthy: the tagger is called whatever the dict holds.
TruthyAlways(md) == TRUE

\* if metadata := get_metadata_input(): an empty dict is falsy.
Truthy(md) == Len(md) > 0

\* The comments prompt returns v and get_metadata_input returns the dict:
\* with metadata the tag-writing comictagger starts, without it the file is
\* passed over with a warning.
EnterComments(v) ==
    /\ pc = "comments"
    /\ answers' = [answers EXCEPT !.comments = v]
    /\ metadata' = WithComments(metadata, v)
    /\ IF Truthy(metadata')
       THEN /\ command' = get_comictagger_command(
                              metadata',
                              PathJoin(directory_to_process,
                                       cbz_files_to_process[idx + 1]))
            /\ pc' = "tagwrite"
            /\ out' = <<>>
            /\ UNCHANGED <<idx, offered, exitStatus, uncaught>>
       ELSE /\ command' = NoCommand
            /\ NextFile(cbz_files_to_process, idx + 1,
                        <<Msg("warning", "Skipping file due to missing metadata.",
                              cbz_files_to_process[idx + 1])>>)
    /\ UNCHANGED <<args_directory, listing, available_directories, available_files,
                   choice, selected_directory, selected_file, directory_to_process,
                   specific_file, cbz_files_to_process, interrupted, tool_exit,
                   failed, fn, arg, res>>

\* The two logger.error lines of the except clause: the file name, then
\* str(e), which names the exit status.
TaggingErrors(file_to_process) ==
    <<Msg("error", "Error while tagging file", file_to_process),
      Msg("error", "Error message: returned non-zero exit status", <<>>)>>

\* Mutant of OnCalledProcessError: no except clause, the exception ends the run.
CalledProcessErrorUncaught(file_to_process) ==
    /\ Exit(1, "CalledProcessError", <<>>)
    /\ UNCHANGED <<idx, offered>>

\* except subprocess.CalledProcessError (lines 277-279): log, and the for
\* loop goes on.
OnCalledProcessError(file_to_process) ==
    NextFile(cbz_files_to_process, idx + 1, TaggingErrors(file_to_process))

\* subprocess.run(command, check=True) returns: the tool exited with zero,
\* exited with non-zero (CalledProcessError), or could not be started
\* (FileNotFoundError, which nothing catches).
TagWriteReturns(outcome) ==
    /\ pc = "tagwrite"
    /\ tool_exit' = outcome
    /\ CASE outcome = "ok" ->
                /\ pc' = "tagprint"
                /\ command' = [tool |-> "comictagger",
                               flags |-> <<"-p", "--type", "CR">>,
                               payload |-> <<>>,
                               file |-> command.file]
                /\ out' = <<Msg("print", "Tagging completed for file:",
                                cbz_files_to_process[idx + 1]),
                            Msg("print", "Updated tags:", <<>>)>>
                /\ UNCHANGED <<idx, offered, exitStatus, uncaught, failed>>
         [] outcome = "nonzero" ->
                /\ command' = NoCommand
                /\ failed' = failed \cup {idx}
                /\ OnCalledProcessError(cbz_files_to_process[idx + 1])
         [] outcome = "notfound" ->
                /\ command' = NoCommand
                /\ Exit(1, "FileNotFoundError", <<>>)
                /\ UNCHANGED <<idx, offered, failed>>
    /\ UNCHANGED <<args_directory, listing, available_directories, available_files,
                   choice, selected_directory, selected_file, directory_to_process,
                   specific_file, cbz_files_to_process, metadata, answers,
                   interrupted, fn, arg, res>>

\* The print-back comictagger returns.
TagPrintReturns(outcome) ==
    /\ pc = "tagprint"
    /\ outcome \in {"ok", "nonzero"}
    /\ tool_exit' = outcome
    /\ command' = NoCommand
    /\ IF outcome = "ok"
       THEN /\ NextFile(cbz_files_to_process, idx + 1, <<>>)
            /\ UNCHANGED failed
       ELSE /\ failed' = failed \cup {idx}
            /\ OnCalledProcessError(cbz_files_to_process[idx + 1])
    /\ UNCHANGED <<args_directory, listing, available_directories, available_files,
                   choice, selected_directory, selected_file, directory_to_process,
                   specific_file, cbz_files_to_process, metadata, answers,
                   interrupted, fn, arg, res>>

\* Mutant of OnKeyboardInterrupt: no except clause, the exception ends the run.
KeyboardInterruptUncaught == Exit(1, "KeyboardInterrupt", <<>>)

\* except KeyboardInterrupt, in process_cbz_files (line 283) and around
\* __main__ (line 334): print "Exiting."; the program then runs off its end.
OnKeyboardInterrupt == Exit(0, "none", <<Msg("print", "Exiting.", <<>>)>>)

\* KeyboardInterrupt while the program waits for input or for the tool.
Interrupt ==
    /\ pc \in Prompts \cup {"tagwrite", "tagprint"}
    /\ interrupted' = TRUE
    /\ OnKeyboardInterrupt
    /\ UNCHANGED <<args_directory, listing, available_directories, available_files,
                   choice, selected_directory, selected_file, directory_to_process,
                   specific_file, cbz_files_to_process, idx, metadata, answers,
                   command, offered, tool_exit, failed, fn, arg, res>>

Next ==
    \/ Start
    \/ \E c \in ChoiceInputs, readable \in BOOLEAN : Choose(c, readable)
    \/ \E entries \in Listings : ProcessStart(entries)
    \/ \E c \in SkipInputs : AnswerSkip(c)
    \/ \E v \in DateInputs(pc) : EnterDate(v)
    \/ \E v \in TitleInputs : EnterTitle(v)
    \/ \E v \in CommentsInputs : EnterComments(v)
    \/ \E outcome \in ToolOutcomes : TagWriteReturns(outcome)
    \/ \E outcome \in ToolOutcomes : TagPrintReturns(outcome)
    \/ Interrupt

Spec == Init /\ [][Next]_vars

---------------------------------------------------------------------------
(* The pure functions on their own: one call each, on inputs drawn from     *)
(* bounded sets                                                             *)

\* The most tokens of a title, characters of a text and names of a batch.
MaxTitleTokens == 3
MaxCleanLen == 4
MaxSortFiles == 4

RECURSIVE Flatten(_)
Flatten(ss) == IF Len(ss) = 0 THEN <<>> ELSE Head(ss) \o Flatten(Tail(ss))

SeqsUpTo(S, n) == UNION {[1..k -> S] : k \in 0..n}

\* The pieces titles are made of: the keywords in mixed case, the characters
\* between keyword and number, and digits.
TitleTokens ==
    {<<"V">>, <<"v", "o", "l">>, <<"V", "o", "l", "u", "m", "e">>,
     <<".">>, <<" ">>, <<"TAB">>, <<"#">>, <<"0">>, <<"7">>}

ChapterTitle == <<"C", "h", "a", "p", "t", "e", "r", " ", "7">>

\* Titles beyond the token bound: the documented examples and the longer
\* forms of the keywords.
LongTitles ==
    {HeroTitle, ChapterTitle,
     <<"v", "o", "l", ".", " ", "0", "7">>,
     <<"V", "O", "L", "U", "M", "E", " ", "1", "2">>,
     <<"v", "o", "l", ".", "TAB", "7">>,
     <<"V", "o", "l", "u", "m", "e", " ", " ", "7">>,
     <<"x", "#", "7", " ", "v", "0", "9">>}

Titles ==
    {Flatten(ts) : ts \in SeqsUpTo(TitleTokens, MaxTitleTokens)} \cup LongTitles

CleanChars == {",", "=", "NL", " ", "TAB", ".", "^", "RSQUO"}

\* A title with a run of three spaces between two words.
SpacedTitle == <<".", " ", " ", " ", ".">>

Texts == SeqsUpTo(CleanChars, MaxCleanLen) \cup {HeroTitle, SpacedTitle}

SortPool == {V3Cbz, V1Cbz, V02Cbz, V2Cbz, XCbz, YCbz}

Batches == DistinctSeqs(SortPool, MaxSortFiles)

PureFns == {"extract_volume_number", "clean_string", "encode_title", "sort"}

PureInputs(f) ==
    CASE f = "extract_volume_number" -> Titles
      [] f = "clean_string" -> Texts
      [] f = "encode_title" -> Texts
      [] f = "sort" -> Batches

MainIdle ==
    /\ listing = <<>>
    /\ args_directory = None
    /\ available_directories = <<>>
    /\ available_files = <<>>
    /\ choice = <<>>
    /\ selected_directory = None
    /\ selected_file = None
    /\ directory_to_process = <<>>
    /\ specific_file = None
    /\ cbz_files_to_process = <<>>
    /\ idx = 0
    /\ metadata = <<>>
    /\ answers = NoAnswers
    /\ command = NoCommand
    /\ out = <<>>
    /\ offered = {}
    /\ interrupted = FALSE
    /\ tool_exit = "none"
    /\ failed = {}
    /\ exitStatus = 0
    /\ uncaught = "none"

mainVars ==
    <<args_directory, listing, available_directories, available_files,
      choice, selected_directory, selected_file, directory_to_process,
      specific_file, cbz_files_to_process, idx, metadata, answers, command,
      out, offered, interrupted, tool_exit, failed, exitStatus, uncaught>>

PureInit ==
    /\ pc = "call"
    /\ fn \in PureFns
    /\ arg \in PureInputs(fn)
    /\ res = <<>>
    /\ MainIdle

Returns(f, value) ==
    /\ pc = "call"
    /\ fn = f
    /\ res' = value
    /\ pc' = "return"
    /\ UNCHANGED <<fn, arg>>
    /\ UNCHANGED mainVars

CallExtract == Returns("extract_volume_number", extract_volume_number(arg))

CallClean == Returns("clean_string", clean_string(arg))

\* The -m argument built from {"title": clean_string(arg)}.
CallEncodeTitle ==
    Returns("encode_title",
            get_comictagger_command(<<<<FieldKey("title"), clean_string(arg)>>>>,
                                    XCbz).payload)

\* Lines 251 and 255 on a directory that holds the files of arg, in the
\* order os.listdir returns them.
CallSort ==
    Returns("sort",
            SortByVolume(CbzNames([i \in 1..Len(arg) |-> Entry(arg[i], FALSE)])))

PureNext == CallExtract \/ CallClean \/ CallEncodeTitle \/ CallSort

PureSpec == PureInit /\ [][PureNext]_vars

---------------------------------------------------------------------------
(* The claims about the pure functions, checked under PureSpec             *)

Returned(f) == pc = "return" /\ fn = f

\* The keyword of alternative a of the extractor, and whether a gap
\* separates it from the digits.
RefKeywords(a) ==
    CASE a = 1 -> {<<"v">>}
      [] a = 2 -> {<<"v", "o", "l", "u", "m", "e">>}
      [] a = 3 -> {<<"v", "o", "l">>, <<"v", "o", "l", ".">>}
      [] a = 4 -> {<<"#">>}

RefHasGap(a) == a \in {2, 3}

\* The gaps between keyword and digits: any run of whitespace, or exactly
\* one space character.
GapAnyWhitespace(g) == Len(g) >= 1 /\ \A i \in 1..Len(g) : g[i] \in Whitespace

GapOneSpace(g) == g = <<" ">>

\* Alternative a occurs in t at position p with its digits at q..e: the text
\* from p to q - 1 is, case-insensitively, the keyword and then the gap, and
\* q..e is a run of digits that cannot be extended to the right.
RefOccurs(t, p, a, q, e, one_space) ==
    /\ p < q /\ q <= e /\ e <= Len(t)
    /\ \A i \in q..e : t[i] \in Digits
    /\ e = Len(t) \/ t[e + 1] \notin Digits
    /\ \E k \in RefKeywords(a) :
          /\ q - p >= Len(k)
          /\ LowerStr(SubSeq(t, p, p + Len(k) - 1)) = k
          /\ LET g == SubSeq(t, p + Len(k), q - 1)
             IN  IF RefHasGap(a)
                 THEN IF one_space THEN GapOneSpace(g) ELSE GapAnyWhitespace(g)
                 ELSE g = <<>>

RefOccurrences(t, one_space) ==
    {o \in (1..Len(t)) \X (1..4) \X (1..Len(t)) \X (1..Len(t)) :
        RefOccurs(t, o[1], o[2], o[3], o[4], one_space)}

\* The reference extractor: the digits of the earliest occurrence, the
\* first-listed alternative winning at the same position; the empty string
\* when nothing occurs.
RefExtract(t, one_space) ==
    LET occ == RefOccurrences(t, one_space)
    IN  IF occ = {} THEN <<>>
        ELSE LET o == CHOOSE x \in occ :
                        \A y \in occ : x[1] < y[1] \/ (x[1] = y[1] /\ x[2] <= y[2])
             IN  SubSeq(t, o[3], o[4])

PosIn(s, x) == CHOOSE i \in 1..Len(s) : s[i] = x

HasVolume(x) == extract_volume_number(x) # <<>>

VolumeOf(x) == DigitsValue(extract_volume_number(x))

\* C8: the batch is the listing's files reordered so that the files with a
\* volume number come first, in ascending order of the number as an integer,
\* the files without one come last, and files with equal or absent keys keep
\* the order of the listing; volumes 3, 1, 02, none are processed as
\* 1, 02, 3, none.
C8_BatchOrder ==
    Returned("sort") =>
        /\ Len(res) = Len(arg)
        /\ Range(res) = Range(arg)
        /\ \A i, j \in 1..Len(res) :
              i < j =>
                  /\ HasVolume(res[j]) => HasVolume(res[i])
                  /\ HasVolume(res[i]) /\ HasVolume(res[j]) =>
                        VolumeOf(res[i]) <= VolumeOf(res[j])
                  /\ (/\ HasVolume(res[i]) /\ HasVolume(res[j])
                      /\ VolumeOf(res[i]) = VolumeOf(res[j])) =>
                        PosIn(arg, res[i]) < PosIn(arg, res[j])
                  /\ ~HasVolume(res[i]) /\ ~HasVolume(res[j]) =>
                        PosIn(arg, res[i]) < PosIn(arg, res[j])
        /\ arg = <<V3Cbz, V1Cbz, V02Cbz, XCbz>> =>
              res = <<V1Cbz, V02Cbz, V3Cbz, XCbz>>

C8_Witness ==
    /\ Returned("sort")
    /\ arg = <<V3Cbz, V1Cbz, V02Cbz, XCbz>>
    /\ res = <<V1Cbz, V02Cbz, V3Cbz, XCbz>>

\* C9, as claimed: clean_string(clean_string(s)) = clean_string(s) for every s.
C9_CleanIdempotent ==
    Returned("clean_string") => clean_string(res) = res

\* C9, amended: clean_string(clean_string(s)) = clean_string(s) for every s
\* that holds no comma and no '='.
C9_CleanIdempotentWithoutSeparators ==
    (Returned("clean_string") /\ "," \notin Range(arg) /\ "=" \notin Range(arg))
        => clean_string(res) = res

C9_Witness ==
    /\ Returned("clean_string")
    /\ arg = <<"TAB", ".", "NL", " ">>
    /\ res = <<".">>

\* The positions of p that hold a comma or '=' with no '^' right before it.
UnescapedSeparators(p) ==
    {i \in 1..Len(p) : p[i] \in {",", "="} /\ (i = 1 \/ p[i - 1] # "^")}

\* C10: in the payload built from {'title': clean_string(s)}, the only comma
\* or '=' not immediately preceded by '^' is the '=' right after the key
\* 'title', so that splitting on unescaped separators gives one key and one
\* value.
C10_TitlePayloadSeparators ==
    Returned("encode_title") =>
        /\ Len(res) >= Len(FieldKey("title")) + 1
        /\ SubSeq(res, 1, Len(FieldKey("title"))) = FieldKey("title")
        /\ UnescapedSeparators(res) = {Len(FieldKey("title")) + 1}

C10_Witness ==
    /\ Returned("encode_title")
    /\ arg = <<".", "=", ",", ".">>
    /\ res = <<"t", "i", "t", "l", "e", "=", ".", "^", "=", "^", ",", ".">>

---------------------------------------------------------------------------
(* The claims about the run of cbz_tagging.py, checked under Spec          *)

DatePrompts == {"year", "month", "day"}

\* A date answer the claim calls invalid: not a run of decimal digits, or a
\* number outside the field's range.
ClaimInvalidDate(field, v) ==
    /\ v # <<>>
    /\ \/ \E i \in 1..Len(v) : v[i] \notin Digits
       \/ DigitsValue(v) < ValidationLow(field)
       \/ DigitsValue(v) > ValidationHigh(field)

\* C1, as claimed: an invalid year, month or day is not stored, the same
\* field is prompted again, and the run goes on without an exception.
C1_InvalidDateReprompts ==
    [][(pc \in DatePrompts /\ ~interrupted' /\ ClaimInvalidDate(pc, answers'[pc]))
          => /\ metadata' = metadata
             /\ pc' = pc
             /\ uncaught' = "none"
             /\ out' # <<>> /\ out'[Len(out')] = Msg("prompt", pc, <<>>)]_vars

WarnedMissing(printed, file) ==
    /\ Len(printed) >= 1
    /\ printed[1] = Msg("warning", "Skipping file due to missing metadata.", file)

\* C2: the tag-writing comictagger never starts with an empty metadata record
\* or an empty payload; when the record is empty after the last prompt (which
\* is when every prompt was answered with the empty line) no comictagger
\* starts for the file and the warning that the file is skipped for missing
\* metadata is logged with the file's name.
C2_EmptyMetadataSkipsTagger ==
    [][/\ pc' = "tagwrite" =>
              /\ metadata' # <<>>
              /\ command'.payload # <<>>
              /\ command'.tool = "comictagger"
       /\ (pc = "comments" /\ ~interrupted') =>
              /\ metadata' = <<>> <=> answers' = NoAnswers
              /\ metadata' = <<>> =>
                    /\ pc' \notin {"tagwrite", "tagprint"}
                    /\ command' = NoCommand
                    /\ tool_exit' = tool_exit
                    /\ WarnedMissing(out', cbz_files_to_process[idx + 1])]_vars

C2_Witness ==
    /\ pc = "skip"
    /\ idx > 0
    /\ answers = NoAnswers
    /\ WarnedMissing(out, cbz_files_to_process[idx])

JobCompleted(printed) ==
    /\ Len(printed) >= 1
    /\ printed[Len(printed)] = Msg("print", "Job completed.", <<>>)

\* C3: when the tag-writing or the print-back comictagger exits non-zero, the
\* file name and the message are logged and the loop goes on: the next file
\* of the batch is offered at once (its skip prompt is shown), or, after the
\* last file, "Job completed." is printed and the run ends with status 0; and
\* a run with such a failure that the user does not interrupt and that no
\* exception ends has offered every file and printed "Job completed.".
C3_ToolFailureContinues ==
    [][/\ (pc \in {"tagwrite", "tagprint"} /\ ~interrupted' /\ tool_exit' = "nonzero") =>
              /\ Len(out') >= 2
              /\ out'[1] = Msg("error", "Error while tagging file",
                               cbz_files_to_process[idx + 1])
              /\ out'[2].kind = "error"
              /\ uncaught' = "none"
              /\ idx \in failed'
              /\ IF idx + 1 < Len(cbz_files_to_process)
                 THEN /\ pc' = "skip"
                      /\ idx' = idx + 1
                      /\ idx' \in offered'
                      /\ out'[Len(out')] =
                            Msg("prompt", "skip", cbz_files_to_process[idx + 2])
                 ELSE /\ pc' = "exit"
                      /\ exitStatus' = 0
                      /\ JobCompleted(out')
       /\ (pc' = "exit" /\ failed' # {} /\ ~interrupted' /\ uncaught' = "none") =>
              /\ offered' = 0..(Len(cbz_files_to_process') - 1)
              /\ JobCompleted(out')]_vars

C3_Witness ==
    /\ pc = "skip"
    /\ (idx - 1) \in failed
    /\ tool_exit = "nonzero"
    /\ idx \in offered

\* C4: a KeyboardInterrupt at a prompt ends the run: "Exiting." is printed
\* and nothing else, no comictagger call and no prompt is pending, the exit
\* status is 0 with no uncaught exception, and no step follows.
C4_InterruptEndsCleanly ==
    [][/\ ~interrupted
       /\ interrupted' =>
              /\ pc' = "exit"
              /\ exitStatus' = 0
              /\ uncaught' = "none"
              /\ out' = <<Msg("print", "Exiting.", <<>>)>>
              /\ tool_exit' = tool_exit]_vars

C4_Witness ==
    /\ interrupted
    /\ pc = "exit"
    /\ answers.title # <<>>
    /\ exitStatus = 0

\* A number, as the claim reads one: a non-empty run of decimal digits.
ClaimNumber(c) == Len(c) > 0 /\ \A i \in 1..Len(c) : c[i] \in Digits

\* One pass of the chooser as C5 describes it.
C5_ChooserStep ==
    (pc = "chooser" /\ ~interrupted') =>
          LET c == choice'
              n == Len(available_directories)
              m == Len(available_files)
              k == DigitsValue(c)
          IN  IF LowerStr(c) = ExitWord
              THEN /\ pc' = "exit" /\ uncaught' = "none"
                   /\ selected_directory' = None /\ selected_file' = None
              ELSE IF ClaimNumber(c) /\ 1 <= k /\ k <= n
              THEN /\ pc' # "chooser"
                   /\ selected_directory' = available_directories[k]
                   /\ selected_file' = None
              ELSE IF ClaimNumber(c) /\ n < k /\ k <= n + m
              THEN /\ pc' = "process"
                   /\ selected_directory' = None
                   /\ selected_file' = available_files[k - n]
              ELSE /\ pc' = "chooser"
                   /\ selected_directory' = None /\ selected_file' = None
                   /\ Len(out') >= 1
                   /\ SubSeq(out', 2, Len(out')) =
                         Menu(available_directories, available_files)

\* C5, as claimed: "exit" in any letter case returns (None, None); a number k
\* in 1..n returns (directories[k-1], None); a number k in n+1..n+m returns
\* (None, files[k-n-1]); every other input shows the menu and prompts again.
C5_ChooserReturnsOrReprompts == [][C5_ChooserStep]_vars

CanonicalKeys ==
    <<FieldKey("year"), FieldKey("month"), FieldKey("day"), FieldKey("title"),
      FieldKey("volume"), FieldKey("comments")>>

KeyRank(k) == CHOOSE i \in 1..Len(CanonicalKeys) : CanonicalKeys[i] = k

\* The first n pairs of md as key=value, separated by commas.
RECURSIVE JoinUpTo(_, _)
JoinUpTo(md, n) ==
    IF n = 0 THEN <<>>
    ELSE JoinUpTo(md, n - 1) \o (IF n > 1 THEN <<",">> ELSE <<>>)
         \o md[n][1] \o <<"=">> \o md[n][2]

HeroPayload ==
    <<"y", "e", "a", "r", "=", "2", "0", "2", "1", ",",
      "t", "i", "t", "l", "e", "=", "H", "e", "r", "o", "^", ",", " ",
      "V", "o", "l", ".", " ", "5", ",",
      "v", "o", "l", "u", "m", "e", "=", "5">>

\* C7: the payload passed to comictagger is the comma-join of the record's
\* key=value pairs in insertion order; the keys are a subsequence of year,
\* month, day, title, volume, comments; volume is there exactly when a title
\* was entered and the raw title yields a volume number, and it comes right
\* after title; year 2021 and title "Hero, Vol. 5" alone give
\* year=2021,title=Hero^, Vol. 5,volume=5.
C7_PayloadOrder ==
    pc = "tagwrite" =>
        LET keys == DictKeys(metadata)
        IN  /\ \A i \in 1..Len(keys) : keys[i] \in Range(CanonicalKeys)
            /\ \A i, j \in 1..Len(keys) :
                  i < j => KeyRank(keys[i]) < KeyRank(keys[j])
            /\ FieldKey("volume") \in Range(keys) <=>
                  (answers.title # <<>> /\ extract_volume_number(answers.title) # <<>>)
            /\ FieldKey("title") \in Range(keys) <=> answers.title # <<>>
            /\ \A i \in 1..Len(keys) :
                  keys[i] = FieldKey("volume") =>
                      i > 1 /\ keys[i - 1] = FieldKey("title")
            /\ command.payload = JoinUpTo(metadata, Len(metadata))
            /\ answers = [NoAnswers EXCEPT !.year = <<"2", "0", "2", "1">>,
                                           !.title = HeroTitle]
                  => command.payload = HeroPayload

C7_Witness ==
    /\ pc = "tagwrite"
    /\ command.payload = HeroPayload

----------------------------------------------------------------------------
(* clean_string and the keys of CHAR_REPLACEMENT_MAPPING (PureSpec)         *)

\* C11: clean_string replaces every character that is a key of
\* CHAR_REPLACEMENT_MAPPING by its mapped value, the right single quotation
\* mark (U+2019) included, so its output never contains U+2019.
C11_NoRightQuoteInOutput ==
    Returned("clean_string") => "RSQUO" \notin Range(res)

----------------------------------------------------------------------------
(* manga_dir_tagging.py: process_dir on one catalog entry                  *)

MaxCredits == 2
MaxCharacters == 2

\* The names between braces in the template, as characters.
TemplateKey(k) ==
    CASE k = "manga" ->
           <<"m", "a", "n", "g", "a">>
      [] k = "black_and_white" ->
           <<"b", "l", "a", "c", "k", "_", "a", "n", "d", "_", "w", "h", "i", "t", "e">>
      [] k = "language" ->
           <<"l", "a", "n", "g", "u", "a", "g", "e">>
      [] k = "genre" ->
           <<"g", "e", "n", "r", "e">>
      [] k = "maturity_rating" ->
           <<"m", "a", "t", "u", "r", "i", "t", "y", "_", "r", "a", "t", "i", "n", "g">>
      [] k = "publisher" ->
           <<"p", "u", "b", "l", "i", "s", "h", "e", "r">>
      [] k = "imprint" ->
           <<"i", "m", "p", "r", "i", "n", "t">>
      [] k = "series" ->
           <<"s", "e", "r", "i", "e", "s">>
      [] k = "series_group" ->
           <<"s", "e", "r", "i", "e", "s", "_", "g", "r", "o", "u", "p">>
      [] k = "web_link" ->
           <<"w", "e", "b", "_", "l", "i", "n", "k">>
      [] k = "credit" ->
           <<"c", "r", "e", "d", "i", "t">>
      [] k = "characters" ->
           <<"c", "h", "a", "r", "a", "c", "t", "e", "r", "s">>

\* The plain fields of the template, in its order.
TemplateFields ==
    <<"manga", "black_and_white", "language", "genre",
      "maturity_rating", "publisher", "imprint", "series",
      "series_group", "web_link">>

\* metadata.get(key, default)
Get(md, key, default) == IF key \in DOMAIN md THEN md[key] ELSE default

\* sep.join(items)
RECURSIVE Join(_, _)
Join(sep, items) ==
    IF Len(items) = 0 THEN <<>>
    ELSE IF Len(items) = 1 THEN items[1]
    ELSE items[1] \o sep \o Join(sep, Tail(items))

\* f"credit={credit_key}:{credit_value}" for one item of the credit dict.
CreditItem(pair) == TemplateKey("credit") \o <<"=">> \o pair[1] \o <<":">> \o pair[2]

\* ", ".join([... for credit_key, credit_value in metadata.get("credit", {}).items()])
credit_str(md) ==
    Join(<<",", " ">>,
         [i \in 1..Len(Get(md, "credit", <<>>)) |->
             CreditItem(Get(md, "credit", <<>>)[i])])

\* "^,".join(metadata.get("characters", []))
characters(md) == Join(<<"^", ",">>, Get(md, "characters", <<>>))

\* template.format(...): every plain field as key=value, then the credits,
\* then characters=..., with a comma between each.
metadata_str(md) ==
    Join(<<",">>,
         [i \in 1..Len(TemplateFields) |->
             TemplateKey(TemplateFields[i]) \o <<"=">>
                 \o Get(md, TemplateFields[i], <<>>)]
         \o <<credit_str(md),
              TemplateKey("characters") \o <<"=">> \o characters(md)>>)

\* The command process_dir runs for a book found in the catalog.
process_dir_command(dir_path, md) ==
    [tool |-> "comictagger",
     flags |-> <<"-R", "-s", "-t", "cr", "--overwrite", "-m">>,
     payload |-> metadata_str(md),
     file |-> dir_path]

\* os.path.basename(path): what follows the last "/".
RECURSIVE basename(_)
basename(path) ==
    IF \E i \in 1..Len(path) : path[i] = "/"
    THEN basename(Tail(path)) ELSE path

\* process_dir(dir_path, book_data): the command it runs, None when the
\* catalog has no entry under the directory's name.
process_dir(dir_path, book_data) ==
    IF basename(dir_path) \in DOMAIN book_data
    THEN process_dir_command(dir_path, book_data[basename(dir_path)])
    ELSE None

\* Catalog entries: any subset of the plain fields, each with a one-letter
\* value; no credit key, or a credit mapping of up to MaxCredits people; no
\* characters key, or a list of up to MaxCharacters names.
PlainFields == {TemplateFields[i] : i \in 1..Len(TemplateFields)}

CreditAt(i) == <<<<"N">> \o NatToStr(i), <<"R">> \o NatToStr(i)>>

CharacterAt(i) == <<"C">> \o NatToStr(i)

CreditParts ==
    {<<>>} \cup {[credit |-> [i \in 1..n |-> CreditAt(i)]] : n \in 0..MaxCredits}

CharactersParts ==
    {<<>>} \cup
    {[characters |-> [i \in 1..n |-> CharacterAt(i)]] : n \in 0..MaxCharacters}

\* An entry whose plain fields are all present and empty.
EmptyValuedEntry ==
    [k \in PlainFields |-> <<>>] @@ [credit |-> <<>>, characters |-> <<>>]

CatalogEntries ==
    {[k \in S |-> <<"x">>] @@ c @@ h :
        S \in SUBSET PlainFields, c \in CreditParts, h \in CharactersParts}
    \cup {EmptyValuedEntry}

\* The catalog holds an entry for d1 alone; the directory is d1 or d2.
DirInputs ==
    {[dir_path |-> PathJoin(<<".">>, d), book_data |-> (D1 :> e)] :
        d \in {D1, D2}, e \in CatalogEntries}

DirInit ==
    /\ pc = "call"
    /\ fn = "process_dir"
    /\ arg \in DirInputs
    /\ res = <<>>
    /\ MainIdle

\* Lines 50-51 false: the book is not in the catalog.
NoMetadataFound ==
    /\ basename(arg.dir_path) \notin DOMAIN arg.book_data
    /\ Returns("process_dir", process_dir(arg.dir_path, arg.book_data))

\* Lines 52-78: the command is built and run.
UpdateMetadata ==
    /\ basename(arg.dir_path) \in DOMAIN arg.book_data
    /\ Returns("process_dir", process_dir(arg.dir_path, arg.book_data))

DirNext == NoMetadataFound \/ UpdateMetadata

DirSpec == DirInit /\ [][DirNext]_vars

----------------------------------------------------------------------------
(* The claim about process_dir, checked under DirSpec                      *)

\* The payload split on the commas that no '^' precedes.
RECURSIVE Segments(_)
Segments(p) ==
    LET cuts == {i \in 1..Len(p) : p[i] = "," /\ (i = 1 \/ p[i - 1] # "^")}
    IN IF cuts = {} THEN <<p>>
       ELSE LET i == CHOOSE c \in cuts : \A d \in cuts : c <= d
            IN <<SubSeq(p, 1, i - 1)>> \o Segments(SubSeq(p, i + 1, Len(p)))

\* The part of a segment before its first '=', the whole segment when it
\* has none.
RECURSIVE SegmentKey(_)
SegmentKey(seg) ==
    IF Len(seg) = 0 \/ Head(seg) = "=" THEN <<>>
    ELSE <<Head(seg)>> \o SegmentKey(Tail(seg))

ControlledFields == PlainFields \cup {"credit", "characters"}

\* The catalog entry holds a non-empty value under field k.
HoldsValue(md, k) == k \in DOMAIN md /\ md[k] # <<>>

\* One segment is a non-empty key=value pair of a controlled field the
\* entry holds a value for.
SegmentWellFormed(seg, md) ==
    /\ Len(seg) > Len(SegmentKey(seg)) + 1
    /\ \E k \in ControlledFields :
          /\ SegmentKey(seg) = TemplateKey(k)
          /\ HoldsValue(md, k)

PayloadWellFormed(p, md) ==
    LET segs == Segments(p)
        credits == Get(md, "credit", <<>>)
    IN /\ \A i \in 1..Len(segs) : SegmentWellFormed(segs[i], md)
       /\ \A c \in 1..Len(credits) :
             \E i \in 1..Len(segs) : segs[i] = CreditItem(credits[c])
       /\ Cardinality({i \in 1..Len(segs) :
                          SegmentKey(segs[i]) = TemplateKey("credit")})
             = Len(credits)
       /\ HoldsValue(md, "characters") =>
             \E i \in 1..Len(segs) :
                segs[i] = TemplateKey("characters") \o <<"=">>
                             \o Join(<<"^", ",">>, md["characters"])

\* The entry process_dir found for the directory at hand.
FoundEntry == arg.book_data[basename(arg.dir_path)]

\* C12: for every catalog entry, the payload process_dir passes after -m is
\* a well-formed encoded record: split on commas not preceded by '^', every
\* segment is a non-empty key=value pair of a controlled field, present only
\* when the catalog holds a non-empty value for it; each credit is one
\* credit=name:role segment and the characters are joined by '^,'.
C12_DirPayloadWellFormed ==
    (Returned("process_dir") /\ basename(arg.dir_path) \in DOMAIN arg.book_data)
        => PayloadWellFormed(res.payload, FoundEntry)

----------------------------------------------------------------------------
(* The claims about the chooser's file branch and the -d option (Spec)     *)

\* The chooser returned a file and __main__ has called process_cbz_files.
FilePicked == pc = "process" /\ selected_file # None

\* The step out of the call shows the skip prompt of the picked file.
PickedFileOffered ==
    /\ pc' = "skip"
    /\ PathJoin(Cwd, cbz_files_to_process'[idx' + 1]) = selected_file
    /\ offered' = {idx'}

\* C13: when the user picks a file at the chooser, process_cbz_files shows
\* the skip prompt for exactly that file, so that the picked archive can be
\* tagged.
C13_PickedFileIsOffered == [][FilePicked => PickedFileOffered]_vars

\* The program was started with -d naming a directory that exists.
StartedWithDirectory ==
    /\ pc = "main"
    /\ args_directory # None
    /\ \E i \in 1..Len(listing) :
          listing[i].name = args_directory /\ listing[i].isdir

\* C14: started with -d/--directory naming an existing, readable directory,
\* the main block resolves it to an absolute path and calls
\* process_cbz_files on it; the run does not end in an error before the
\* first file is offered.
C14_DirectoryOptionStartsBatch ==
    [][StartedWithDirectory =>
          /\ pc' = "process"
          /\ directory_to_process' = PathJoin(Cwd, args_directory)
          /\ uncaught' = "none"]_vars

====
